---- MODULE Spec2Model ----
(***************************************************************************)
(* Model of fcurve_io.py: the JSON exporter of an object's active action   *)
(* (ANIMIO_OT_fcurve_exporter) and the three importers built on            *)
(* FCurveImporterMixin.insert_keyframes / touch_fcurve.                    *)
(*                                                                         *)
(* The host (bpy) is modelled by what the calls used here do:              *)
(*   - action.fcurves is an ordered collection of channels; fcurves.new    *)
(*     appends an empty, ungrouped channel; fcurves.remove deletes one;    *)
(*   - action.groups is an ordered collection of groups, and a group's     *)
(*     channels are the fcurves that carry that group, in fcurves order;   *)
(*   - keyframe_points.insert(frame, value, keyframe_type) keeps the       *)
(*     points sorted by frame; when a point already sits on that frame it  *)
(*     only takes the new value and returns the existing point;            *)
(*   - convert_to_keyframes / convert_to_samples switch a channel between  *)
(*     its sampled and its keyframe storage.                               *)
(* Floats are modelled by small naturals; json.dumps / json.loads of a     *)
(* document is the document itself (a float survives the text form).       *)
(***************************************************************************)
EXTENDS Naturals, Sequences, FiniteSets

\* ---------------------------------------------------------------- bounds

\* Frames a control point can sit on: 1..MaxTime.
MaxTime == 2

\* Records one run reads from documents that the exporter did not write.
MaxRecords == 2

\* ------------------------------------------------------------ data model

\* The (data_path, array_index) keys that occur in documents of other
\* producers; the objects of Init also hold a ("scale", 0) channel.
DocKeys == {<<"location", 0>>, <<"location", 1>>}

Times == 1..MaxTime

NoGroup == ""

GroupNames == {"Transforms"}

\* Two attribute settings that differ in every attribute of a control point.
Profiles ==
    { [v |-> 0, type |-> "KEYFRAME", amplitude |-> 0, back |-> 0,
       easing |-> "AUTO", handle_type |-> "FREE",
       interpolation |-> "BEZIER", period |-> 0],
      [v |-> 1, type |-> "BREAKDOWN", amplitude |-> 1, back |-> 1,
       easing |-> "EASE_IN", handle_type |-> "VECTOR",
       interpolation |-> "LINEAR", period |-> 1] }

\* A control point (bpy.types.Keyframe) on frame t with the attributes of p.
Point(t, p) ==
    [co |-> <<t, p.v>>,
     type |-> p.type,
     amplitude |-> p.amplitude,
     back |-> p.back,
     easing |-> p.easing,
     handle_left |-> <<t - 1, p.v>>,
     handle_left_type |-> p.handle_type,
     handle_right |-> <<t + 1, p.v>>,
     handle_right_type |-> p.handle_type,
     interpolation |-> p.interpolation,
     period |-> p.period]

\* ------------------------------------------------------- host operations

Min(S) == CHOOSE x \in S : \A y \in S : x <= y

RemoveAt(s, i) == [j \in 1..(Len(s) - 1) |-> IF j < i THEN s[j] ELSE s[j + 1]]

InsertAt(s, i, e) ==
    [j \in 1..(Len(s) + 1) |-> IF j < i THEN s[j] ELSE IF j = i THEN e ELSE s[j - 1]]

\* The point keyframe_points.insert creates on a free frame: the given
\* position and type, the host's defaults for everything else.
NewKeyframe(frame, value, keyframe_type) ==
    [co |-> <<frame, value>>,
     type |-> keyframe_type,
     amplitude |-> 8,
     back |-> 17,
     easing |-> "AUTO",
     handle_left |-> <<frame - 1, value>>,
     handle_left_type |-> "AUTO_CLAMPED",
     handle_right |-> <<frame + 1, value>>,
     handle_right_type |-> "AUTO_CLAMPED",
     interpolation |-> "BEZIER",
     period |-> 41]

\* fcurve.keyframe_points.insert(frame, value, keyframe_type=...): the new
\* point sequence and the position of the point that is returned.
keyframe_points_insert(points, frame, value, keyframe_type) ==
    LET same == {i \in DOMAIN points : points[i].co[1] = frame}
        at == 1 + Cardinality({i \in DOMAIN points : points[i].co[1] < frame})
    IN  IF same # {}
        THEN [points |-> [points EXCEPT ![Min(same)].co = <<frame, value>>],
              at |-> Min(same)]
        ELSE [points |-> InsertAt(points, at, NewKeyframe(frame, value, keyframe_type)),
              at |-> at]

\* NewFCurve, had fcurves.new been given the record's group.
NewFCurve_grouped(data_path, array_index) ==
    [data_path |-> data_path,
     array_index |-> array_index,
     group |-> "Transforms",
     keyframe_points |-> <<>>,
     sampled_points |-> <<>>]

\* action.fcurves.new(data_path, index=array_index): an empty channel in
\* no group.
NewFCurve(data_path, array_index) ==
    [data_path |-> data_path,
     array_index |-> array_index,
     group |-> NoGroup,
     keyframe_points |-> <<>>,
     sampled_points |-> <<>>]

\* channel.convert_to_keyframes(*range): one control point per sample.
convert_to_keyframes(channel) ==
    [channel EXCEPT
        !.keyframe_points =
            [i \in DOMAIN channel.sampled_points |->
                NewKeyframe(channel.sampled_points[i][1],
                            channel.sampled_points[i][2], "KEYFRAME")],
        !.sampled_points = <<>>]

\* channel.convert_to_samples(*range): one sample per control point.
convert_to_samples(channel) ==
    [channel EXCEPT
        !.sampled_points =
            [i \in DOMAIN channel.keyframe_points |-> channel.keyframe_points[i].co],
        !.keyframe_points = <<>>]

\* ------------------------------------------------------------- exporter

\* ANIMIO_OT_fcurve_exporter.keyframe_to_json: the flat record of one
\* control point.
keyframe_to_json(keyframe, data_path, array_index, group) ==
    [data_path |-> data_path,
     group |-> group,
     array_index |-> array_index,
     amplitude |-> keyframe.amplitude,
     back |-> keyframe.back,
     co |-> keyframe.co,
     easing |-> keyframe.easing,
     handle_left |-> keyframe.handle_left,
     handle_left_type |-> keyframe.handle_left_type,
     handle_right |-> keyframe.handle_right,
     handle_right_type |-> keyframe.handle_right_type,
     interpolation |-> keyframe.interpolation,
     period |-> keyframe.period,
     type |-> keyframe.type]

\* "if not channel.keyframe_points": the channel is treated as sampled.
TreatedAsSampled(channel) == channel.keyframe_points = <<>>

\* The channel as the serializing loop sees it.
ExportView(channel) ==
    IF TreatedAsSampled(channel) THEN convert_to_keyframes(channel) ELSE channel

\* The records one channel contributes, in the channel's point order.
ChannelRecords(channel, group_name) ==
    LET c == ExportView(channel)
    IN  [i \in DOMAIN c.keyframe_points |->
            keyframe_to_json(c.keyframe_points[i], c.data_path, c.array_index, group_name)]

\* The channel after its iteration of the loop has completed.
ChannelAfterExport(channel) ==
    IF TreatedAsSampled(channel)
    THEN convert_to_samples(convert_to_keyframes(channel))
    ELSE channel

RECURSIVE SelectIdx(_, _, _)
\* The positions i >= from of fcurves whose channel is in group g, ascending.
SelectIdx(fcurves, g, from) ==
    IF from > Len(fcurves) THEN <<>>
    ELSE (IF fcurves[from].group = g THEN <<from>> ELSE <<>>)
         \o SelectIdx(fcurves, g, from + 1)

RECURSIVE GroupWalk(_, _, _)
\* "for group_name, group in groups.items(): for _, channel in
\* group.channels.items()": the fcurves positions in visiting order.
GroupWalk(groups, fcurves, from) ==
    IF from > Len(groups) THEN <<>>
    ELSE SelectIdx(fcurves, groups[from], 1) \o GroupWalk(groups, fcurves, from + 1)

\* ------------------------------------------------------------- importer

\* touch_fcurve without "action.fcurves.remove(curve)": under replace the
\* old channel stays beside the new one.
touch_fcurve_keep(fcurves, data_path, array_index, replace) ==
    LET hits == {i \in DOMAIN fcurves :
                    /\ fcurves[i].data_path = data_path
                    /\ fcurves[i].array_index = array_index}
    IN  IF hits # {} /\ ~replace
        THEN [fcurves |-> fcurves, at |-> Min(hits)]
        ELSE [fcurves |-> Append(fcurves, [data_path |-> data_path,
                                            array_index |-> array_index,
                                            group |-> NoGroup,
                                            keyframe_points |-> <<>>,
                                            sampled_points |-> <<>>]),
              at |-> Len(fcurves) + 1]

\* touch_fcurve without the "if not replace: return curve" branch: a found
\* channel is always freed.
touch_fcurve_fresh(fcurves, data_path, array_index, replace) ==
    LET hits == {i \in DOMAIN fcurves :
                    /\ fcurves[i].data_path = data_path
                    /\ fcurves[i].array_index = array_index}
        kept == IF hits = {} THEN fcurves ELSE RemoveAt(fcurves, Min(hits))
    IN  [fcurves |-> Append(kept, [data_path |-> data_path,
                                    array_index |-> array_index,
                                    group |-> NoGroup,
                                    keyframe_points |-> <<>>,
                                    sampled_points |-> <<>>]),
         at |-> Len(kept) + 1]

\* FCurveImporterMixin.touch_fcurve: the channels afterwards and the
\* position of the channel that is returned.
touch_fcurve(fcurves, data_path, array_index, replace) ==
    LET hits == {i \in DOMAIN fcurves :
                    /\ fcurves[i].data_path = data_path
                    /\ fcurves[i].array_index = array_index}
        kept == IF hits = {} THEN fcurves ELSE RemoveAt(fcurves, Min(hits))
    IN  IF hits # {} /\ ~replace
        THEN [fcurves |-> fcurves, at |-> Min(hits)]
        ELSE [fcurves |-> Append(kept, NewFCurve(data_path, array_index)),
              at |-> Len(kept) + 1]

\* "if filter and (data_path, array_index) not in filter: continue".
\* A filter is [given |-> whether one was passed, keys |-> its keys];
\* None and the empty set are both falsy.
Skipped(filter, data_path, array_index) ==
    /\ filter.given
    /\ filter.keys # {}
    /\ <<data_path, array_index>> \notin filter.keys

\* ReplaceArg without the replaced set: replace_curve for every record.
ReplaceArg_always(replace_curve, replaced, data_path, array_index) == replace_curve

\* The replace argument insert_keyframes passes to touch_fcurve.
ReplaceArg(replace_curve, replaced, data_path, array_index) ==
    IF <<data_path, array_index>> \notin replaced THEN replace_curve ELSE FALSE

\* Lines 193-201: the attributes set on the point insert returned.
SetAttributes(point, keyframe) ==
    [point EXCEPT
        !.amplitude = keyframe.amplitude,
        !.back = keyframe.back,
        !.easing = keyframe.easing,
        !.handle_left = keyframe.handle_left,
        !.handle_left_type = keyframe.handle_left_type,
        !.handle_right = keyframe.handle_right,
        !.handle_right_type = keyframe.handle_right_type,
        !.interpolation = keyframe.interpolation,
        !.period = keyframe.period]

\* One iteration of the loop of insert_keyframes for a record that is not
\* skipped. stop tells how far the iteration gets before a KeyError:
\* "touch" (co or type is missing), "insert" (an attribute read after the
\* insert is missing) or "end" (the record is complete).
InsertRecord(fcurves, keyframe, replace, stop) ==
    LET t == touch_fcurve(fcurves, keyframe.data_path, keyframe.array_index, replace)
        ch == t.fcurves[t.at]
        ins == keyframe_points_insert(ch.keyframe_points, keyframe.co[1],
                                      keyframe.co[2], keyframe.type)
        set == [ins.points EXCEPT ![ins.at] = SetAttributes(ins.points[ins.at], keyframe)]
    IN  IF stop = "touch" THEN t.fcurves
        ELSE IF stop = "insert"
        THEN [t.fcurves EXCEPT ![t.at].keyframe_points = ins.points]
        ELSE [t.fcurves EXCEPT ![t.at].keyframe_points = set]

\* ---------------------------------------------------------------- state

VARIABLES
    anim,          \* obj.animation_data: "none", "empty" (no action) or "action"
    action,        \* the active action: name, groups, fcurves
    file,          \* the file at the exporter's filepath
    pc,            \* "idle", "export" (in the channel loop) or "import" (in the record loop)
    queue,         \* export: fcurves positions still to visit
    action_data,   \* export: the document under construction
    replaced,      \* import: the local set replaced of insert_keyframes
    filter,        \* import: the filter argument
    replace_curve, \* import: the replace_curve argument
    todo,          \* import: records left when the exported file is read
    from_file,     \* import: whether the pass reads the exported file
    result,        \* how the last operator ended
    reported,      \* whether the last operator called self.report
    opened,        \* whether the last operator opened the output file for writing
    op,            \* the operator that runs or ran last
    pre,           \* anim and action when that operator started
    seen,          \* import: the records the loop has taken so far, in order
    used,          \* records read so far from documents other than the exported file
    exported       \* the action as it was when the exported file was written

vars == <<anim, action, file, pc, queue, action_data, replaced, filter,
          replace_curve, todo, from_file, result, reported, opened, op, pre,
          seen, used, exported>>

NoAction == [name |-> "", groups |-> <<>>, fcurves |-> <<>>]

NoFile == [exists |-> FALSE, valid |-> FALSE, name |-> "", keyframes |-> <<>>]

\* The file right after open(filepath, 'w+'): empty, not a JSON text.
TruncatedFile == [exists |-> TRUE, valid |-> FALSE, name |-> "", keyframes |-> <<>>]

NoFilter == [given |-> FALSE, keys |-> {}]

\* The filters a caller of insert_keyframes passes in this model.
Filters ==
    {NoFilter, [given |-> TRUE, keys |-> {}],
     [given |-> TRUE, keys |-> {<<"location", 0>>}],
     [given |-> TRUE, keys |-> {<<"location", 1>>, <<"scale", 0>>}]}

\* The records of documents written by other producers.
Records ==
    {keyframe_to_json(Point(t, p), k[1], k[2], "Transforms") :
        k \in DocKeys, t \in Times, p \in Profiles}

DocName == "Imported"

\* ----------------------------------------------------------------- Init

FirstProfile == CHOOSE p \in Profiles : p.v = 0

\* A channel of the object before the run: points on frames 1..n, stored
\* as keyframes or as samples.
InitChannel(k, g, n, sampled) ==
    [data_path |-> k[1],
     array_index |-> k[2],
     group |-> g,
     keyframe_points |-> IF sampled THEN <<>> ELSE [i \in 1..n |-> Point(i, FirstProfile)],
     sampled_points |-> IF sampled THEN [i \in 1..n |-> <<i, 0>>] ELSE <<>>]

\* The channel collections the object starts with when importers are
\* checked: keyframe channels, grouped or not, some of them sharing a
\* data_path with a channel of another index.
InitFCurves ==
    {<<>>,
     <<InitChannel(<<"location", 0>>, "Transforms", 1, FALSE)>>,
     <<InitChannel(<<"location", 1>>, NoGroup, 1, FALSE),
       InitChannel(<<"location", 0>>, NoGroup, MaxTime, FALSE)>>,
     <<InitChannel(<<"scale", 0>>, "Transforms", MaxTime, FALSE),
       InitChannel(<<"location", 0>>, "Transforms", 1, FALSE),
       InitChannel(<<"location", 1>>, "Transforms", 1, FALSE)>>}

\* The channel collections the object starts with when the exporter is
\* checked: up to two channels, each grouped or not, stored as keyframes
\* or as samples.
ExportFCurves ==
    LET first == {InitChannel(<<"location", 0>>, g, n, s) :
                    g \in GroupNames \cup {NoGroup}, n \in {1, MaxTime}, s \in BOOLEAN}
        second == {InitChannel(<<"scale", 0>>, g, MaxTime, s) :
                    g \in GroupNames \cup {NoGroup}, s \in BOOLEAN}
    IN  {<<>>} \cup {<<x>> : x \in first} \cup {<<x, y>> : x \in first, y \in second}

\* The groups of an initial action: the groups its channels are in.
GroupsOf(f) ==
    IF \E i \in DOMAIN f : f[i].group = "Transforms" THEN <<"Transforms">> ELSE <<>>

InitWith(fcurves) ==
    /\ anim \in {"none", "empty", "action"}
    /\ action \in IF anim = "action"
                  THEN {[name |-> "Walk", groups |-> GroupsOf(f), fcurves |-> f] :
                            f \in fcurves}
                  ELSE {NoAction}
    /\ file = NoFile
    /\ pc = "idle"
    /\ queue = <<>>
    /\ action_data = [name |-> "", keyframes |-> <<>>]
    /\ replaced = {}
    /\ filter = NoFilter
    /\ replace_curve = FALSE
    /\ todo = <<>>
    /\ from_file = FALSE
    /\ result = ""
    /\ reported = FALSE
    /\ opened = FALSE
    /\ op = ""
    /\ pre = [anim |-> anim, action |-> action]
    /\ seen = <<>>
    /\ used = 0
    /\ exported = NoAction

Init == InitWith(InitFCurves)

\* The object sequences of operators start from.
InitSeq ==
    /\ InitWith({<<InitChannel(<<"scale", 0>>, "Transforms", MaxTime, FALSE),
                   InitChannel(<<"location", 0>>, "Transforms", 1, FALSE)>>})
    /\ anim # "empty"

InitExport == InitWith(ExportFCurves)

\* HasAction without the "not anim_data.action" half of the test.
HasAction_anim(a) == a # "none"

\* "if not anim_data or not anim_data.action" is false.
HasAction(a) == a = "action"

\* What every operator does to the bookkeeping when it starts.
Start(name) ==
    /\ pc = "idle"
    /\ op' = name
    /\ pre' = [anim |-> anim, action |-> action]
    /\ seen' = IF name = "export" THEN seen ELSE <<>>
    /\ UNCHANGED exported

\* -------------------------------------------------------------- export

\* execute, lines 74-79: no animation data or no action.
ExportNoAnimation ==
    /\ Start("export")
    /\ ~HasAction(anim)
    /\ reported' = TRUE
    /\ result' = "None"
    /\ opened' = FALSE
    /\ UNCHANGED <<anim, action, file, pc, queue, action_data, replaced, filter,
                   replace_curve, todo, from_file, used>>

\* execute, lines 82-91: the document is set up and the loops start.
ExportBegin ==
    /\ Start("export")
    /\ HasAction(anim)
    /\ pc' = "export"
    /\ action_data' = [name |-> action.name, keyframes |-> <<>>]
    /\ queue' = GroupWalk(action.groups, action.fcurves, 1)
    /\ reported' = FALSE
    /\ result' = ""
    /\ opened' = FALSE
    /\ UNCHANGED <<anim, action, file, replaced, filter, replace_curve, todo,
                   from_file, used>>

\* execute, lines 93-108: one channel's iteration, run to its end.
ExportChannel ==
    /\ pc = "export"
    /\ queue # <<>>
    /\ LET i == Head(queue)
           ch == action.fcurves[i]
       IN  /\ action_data' =
                [action_data EXCEPT
                    !.keyframes = @ \o ChannelRecords(ch, ch.group)]
           /\ action' = [action EXCEPT !.fcurves[i] = ChannelAfterExport(ch)]
    /\ queue' = Tail(queue)
    /\ UNCHANGED <<anim, file, pc, replaced, filter, replace_curve, todo,
                   from_file, result, reported, opened, op, pre, seen, used, exported>>

\* execute, line 103 with keyframe_to_json raising (line 43): the
\* exception leaves execute with the channel as line 99 left it.
ExportChannelRaise ==
    /\ pc = "export"
    /\ queue # <<>>
    /\ LET i == Head(queue)
           ch == action.fcurves[i]
       IN  /\ ExportView(ch).keyframe_points # <<>>
           /\ action' = [action EXCEPT !.fcurves[i] = ExportView(ch)]
    /\ pc' = "idle"
    /\ queue' = <<>>
    /\ result' = "TypeError"
    /\ UNCHANGED <<anim, file, action_data, replaced, filter, replace_curve,
                   todo, from_file, reported, opened, op, pre, seen, used, exported>>

\* execute, lines 110-117: the document is written.
ExportWrite ==
    /\ pc = "export"
    /\ queue = <<>>
    /\ file' = [exists |-> TRUE, valid |-> TRUE, name |-> action_data.name,
                keyframes |-> action_data.keyframes]
    /\ opened' = TRUE
    /\ result' = "FINISHED"
    /\ pc' = "idle"
    /\ exported' = action
    /\ UNCHANGED <<anim, action, queue, action_data, replaced, filter,
                   replace_curve, todo, from_file, reported, op, pre, seen, used>>

\* execute, lines 112-115 with open or write failing.
ExportWriteFail ==
    /\ pc = "export"
    /\ queue = <<>>
    /\ \E truncated \in BOOLEAN :
        /\ file' = IF truncated THEN TruncatedFile ELSE file
        /\ opened' = truncated
    /\ result' = "IOError"
    /\ pc' = "idle"
    /\ UNCHANGED <<anim, action, queue, action_data, replaced, filter,
                   replace_curve, todo, from_file, reported, op, pre, seen, used, exported>>

\* -------------------------------------------------------------- import

\* How reading the document at filepath goes: "open" (the file is not
\* there), "parse" (json.loads raises), "name" / "keyframes" (that
\* top-level field is missing) or "none" (a well-formed document).
\* The exported file is what the exporter left; another producer's file
\* can have any of the defects.
ReadOutcomes(fromfile) ==
    IF fromfile
    THEN {IF ~file.exists THEN "open" ELSE IF ~file.valid THEN "parse" ELSE "none"}
    ELSE {"none", "parse", "name", "keyframes"}

\* The local state of insert_keyframes when its loop starts.
EnterLoop(fromfile, f, rc) ==
    /\ pc' = "import"
    /\ replaced' = {}
    /\ filter' = f
    /\ replace_curve' = rc
    /\ from_file' = fromfile
    /\ todo' = IF fromfile THEN file.keyframes ELSE <<>>
    /\ result' = ""

\* The operator ends in an exception before the loop.
Raise(fromfile, error) ==
    /\ pc' = "idle"
    /\ result' = error
    /\ from_file' = fromfile
    /\ UNCHANGED <<replaced, filter, replace_curve, todo>>

ErrorOf(outcome) ==
    IF outcome = "open" THEN "IOError"
    ELSE IF outcome = "parse" THEN "JSONDecodeError"
    ELSE "KeyError"

\* ANIMIO_OT_action_importer.execute, lines 224-241.
ActionImport(fromfile, outcome) ==
    /\ Start("action_import")
    /\ outcome \in ReadOutcomes(fromfile)
    /\ reported' = FALSE
    /\ opened' = FALSE
    /\ IF outcome \in {"open", "parse"}
       THEN /\ Raise(fromfile, ErrorOf(outcome))
            /\ UNCHANGED <<anim, action>>
       ELSE IF outcome = "name"
       THEN \* animation_data_clear and animation_data_create have run
            /\ Raise(fromfile, ErrorOf(outcome))
            /\ anim' = "empty"
            /\ action' = NoAction
       ELSE /\ anim' = "action"
            /\ action' = [name |-> IF fromfile THEN file.name ELSE DocName,
                          groups |-> <<>>, fcurves |-> <<>>]
            /\ IF outcome = "keyframes"
               THEN Raise(fromfile, ErrorOf(outcome))
               ELSE EnterLoop(fromfile, NoFilter, TRUE)
    /\ UNCHANGED <<file, queue, action_data, used>>

\* FCurveResolverMixin.execute, lines 251-266, for the replacer
\* (rc = TRUE) and the merger (rc = FALSE).
ResolverImport(rc, fromfile, outcome) ==
    /\ Start(IF rc THEN "replace" ELSE "merge")
    /\ outcome \in ReadOutcomes(fromfile) \ {"name"}
    /\ reported' = FALSE
    /\ opened' = FALSE
    /\ IF outcome \in {"open", "parse"}
       THEN Raise(fromfile, ErrorOf(outcome))
       ELSE IF ~HasAction(anim)
       THEN Raise(fromfile, "ValueError")
       ELSE IF outcome = "keyframes"
       THEN Raise(fromfile, ErrorOf(outcome))
       ELSE EnterLoop(fromfile, NoFilter, rc)
    /\ UNCHANGED <<anim, action, file, queue, action_data, used>>

\* A direct call of insert_keyframes on the active action with a filter,
\* the document already parsed.
InsertKeyframesCall(f, rc) ==
    /\ Start("insert_keyframes")
    /\ anim = "action"
    /\ reported' = FALSE
    /\ opened' = FALSE
    /\ EnterLoop(FALSE, f, rc)
    /\ UNCHANGED <<anim, action, file, queue, action_data, used>>

\* The next record of the document being read.
NextRecord(r) ==
    /\ pc = "import"
    /\ IF from_file
       THEN todo # <<>> /\ r = Head(todo) /\ todo' = Tail(todo) /\ used' = used
       ELSE r \in Records /\ used < MaxRecords /\ used' = used + 1 /\ todo' = todo

\* insert_keyframes, lines 171-201: one iteration of the loop on a
\* complete record.
ImportRecord(r) ==
    /\ NextRecord(r)
    /\ seen' = Append(seen, r)
    /\ IF Skipped(filter, r.data_path, r.array_index)
       THEN UNCHANGED <<action, replaced>>
       ELSE /\ action' =
                [action EXCEPT
                    !.fcurves =
                        InsertRecord(@, r,
                            ReplaceArg(replace_curve, replaced, r.data_path, r.array_index),
                            "end")]
            /\ replaced' = IF replace_curve
                           THEN replaced \cup {<<r.data_path, r.array_index>>}
                           ELSE replaced
    /\ UNCHANGED <<anim, file, pc, queue, action_data, filter, replace_curve,
                   from_file, result, reported, opened, op, pre, exported>>

\* The fields whose absence from a record is modelled: one read before
\* touch_fcurve, one read between touch_fcurve and the insert, one read
\* after the insert.
MissingFields == {"data_path", "co", "amplitude"}

\* The records that lack the field, told apart by the fields the
\* iteration reads before the KeyError: none when data_path is missing,
\* the key when co is missing, the key, co and type otherwise.
MalformedRecords(missing) ==
    IF missing = "data_path"
    THEN {CHOOSE r \in Records : TRUE}
    ELSE IF missing = "co"
    THEN {keyframe_to_json(Point(1, FirstProfile), k[1], k[2], "Transforms") : k \in DocKeys}
    ELSE Records

\* insert_keyframes, lines 171-201: one iteration on a record that lacks
\* a field the iteration reads; the KeyError ends the operator.
ImportRecordMalformed(r, missing) ==
    /\ NextRecord(r)
    /\ ~from_file
    /\ missing = "data_path" \/ ~Skipped(filter, r.data_path, r.array_index)
    /\ action' =
        IF missing = "data_path" THEN action
        ELSE [action EXCEPT
                !.fcurves =
                    InsertRecord(@, r,
                        ReplaceArg(replace_curve, replaced, r.data_path, r.array_index),
                        IF missing = "co" THEN "touch" ELSE "insert")]
    /\ replaced' = IF missing # "data_path" /\ replace_curve
                   THEN replaced \cup {<<r.data_path, r.array_index>>}
                   ELSE replaced
    /\ pc' = "idle"
    /\ result' = "KeyError"
    /\ UNCHANGED <<anim, file, queue, action_data, filter, replace_curve,
                   from_file, reported, opened, op, pre, seen, exported>>

\* The loop has taken the last record: the operator returns.
ImportDone ==
    /\ pc = "import"
    /\ from_file => todo = <<>>
    /\ pc' = "idle"
    /\ result' = "FINISHED"
    /\ UNCHANGED <<anim, action, file, queue, action_data, replaced, filter,
                   replace_curve, todo, from_file, reported, opened, op, pre,
                   seen, used, exported>>

\* ---------------------------------------------------------------- Next

Export ==
    \/ ExportNoAnimation
    \/ ExportBegin
    \/ ExportChannel
    \/ ExportChannelRaise
    \/ ExportWrite
    \/ ExportWriteFail

ImportLoop ==
    \/ \E r \in Records : ImportRecord(r)
    \/ \E missing \in MissingFields :
         \E r \in MalformedRecords(missing) : ImportRecordMalformed(r, missing)
    \/ ImportDone

\* The importers, run on a document of another producer.
ActionImporter(outcome) == ActionImport(FALSE, outcome)

ResolverImporter(rc, outcome) == ResolverImport(rc, FALSE, outcome)

\* The same, as the only importer invocation of a run.
OneActionImporter(outcome) == op = "" /\ ActionImporter(outcome)

OneResolverImporter(rc, outcome) == op = "" /\ ResolverImporter(rc, outcome)

\* The only direct call of insert_keyframes of a run.
OneInsertKeyframesCall(f, rc) == op = "" /\ InsertKeyframesCall(f, rc)

\* The action importer reading the exported file.
ActionImporterOfExport(outcome) == ActionImport(TRUE, outcome)

\* One iteration of the loop of an action import of the exported file.
ImportExportedRecord(r) == from_file /\ ImportRecord(r)

\* A run is one importer invocation on any of the initial objects.
Next ==
    \/ \E outcome \in {"none", "parse", "name", "keyframes"} : OneActionImporter(outcome)
    \/ \E rc \in BOOLEAN, outcome \in {"none", "parse", "keyframes"} :
            OneResolverImporter(rc, outcome)
    \/ ImportLoop

Spec == Init /\ [][Next]_vars

\* A run is one direct call of insert_keyframes with a filter.
NextFilter ==
    \/ \E f \in Filters, rc \in BOOLEAN : OneInsertKeyframesCall(f, rc)
    \/ ImportLoop

SpecFilter == Init /\ [][NextFilter]_vars

\* A new pass starts only while records are left to read.
MoreActionImporter(outcome) == used < MaxRecords /\ ActionImporter(outcome)

MoreResolverImporter(rc, outcome) == used < MaxRecords /\ ResolverImporter(rc, outcome)

\* A run is any sequence of importer invocations.
NextSeq ==
    \/ \E outcome \in {"none", "parse", "name", "keyframes"} : MoreActionImporter(outcome)
    \/ \E rc \in BOOLEAN, outcome \in {"none", "parse", "keyframes"} :
            MoreResolverImporter(rc, outcome)
    \/ ImportLoop

SpecSeq == InitSeq /\ [][NextSeq]_vars

\* A run is any sequence of exports and of action imports of the
\* exported file.
NextExport ==
    \/ Export
    \/ \E outcome \in {"none", "open", "parse"} : ActionImporterOfExport(outcome)
    \/ \E r \in {todo[i] : i \in DOMAIN todo} : ImportExportedRecord(r)
    \/ ImportDone

SpecExport == InitExport /\ [][NextExport]_vars

\* A run is one importer invocation on another producer's document, and
\* any number of exports.
NextImportExport ==
    \/ Export
    \/ \E outcome \in {"none", "parse", "name", "keyframes"} : OneActionImporter(outcome)
    \/ \E rc \in BOOLEAN, outcome \in {"none", "parse", "keyframes"} :
            OneResolverImporter(rc, outcome)
    \/ ImportLoop

SpecImportExport == Init /\ [][NextImportExport]_vars

\* ---------------------------------------------------------- properties

KeyOf(channel) == <<channel.data_path, channel.array_index>>

\* The positions of the channels of fcurves that carry key k.
WithKey(fcurves, k) == {i \in DOMAIN fcurves : KeyOf(fcurves[i]) = k}

\* The positions in seen of the records with key k.
RecordsFor(k) == {i \in DOMAIN seen : <<seen[i].data_path, seen[i].array_index>> = k}

FramesOf(points) == {points[i].co[1] : i \in DOMAIN points}

PointSet(points) == {points[i] : i \in DOMAIN points}

\* The control point a record describes.
RecordPoint(r) ==
    [co |-> r.co,
     type |-> r.type,
     amplitude |-> r.amplitude,
     back |-> r.back,
     easing |-> r.easing,
     handle_left |-> r.handle_left,
     handle_left_type |-> r.handle_left_type,
     handle_right |-> r.handle_right,
     handle_right_type |-> r.handle_right_type,
     interpolation |-> r.interpolation,
     period |-> r.period]

ImportOps == {"action_import", "replace", "merge", "insert_keyframes"}

\* The operator named has returned {'FINISHED'}.
Finished(name) == pc = "idle" /\ op = name /\ result = "FINISHED"

\* A pass of insert_keyframes with replace_curve = TRUE has returned.
ReplacePassDone == pc = "idle" /\ op \in ImportOps /\ result = "FINISHED" /\ replace_curve

\* The records of key k in the pass sit on pairwise distinct frames.
DistinctFrames(k) ==
    \A i, j \in RecordsFor(k) : seen[i].co[1] = seen[j].co[1] => i = j

\* C1, as claimed: after a pass with replace_curve = TRUE over a document
\* with N > 1 records of one key, the channel of that key holds exactly N
\* control points, whatever it held before.
C1_ExactlyN ==
    \A k \in DocKeys :
        (ReplacePassDone /\ Cardinality(RecordsFor(k)) > 1) =>
            /\ WithKey(action.fcurves, k) # {}
            /\ \A c \in WithKey(action.fcurves, k) :
                Len(action.fcurves[c].keyframe_points) = Cardinality(RecordsFor(k))

\* C1, amended: after a pass with replace_curve = TRUE over a document
\* with N > 1 records of one key, the channel of that key holds exactly
\* one control point per distinct frame of those records and nothing it
\* held before: N points when the N frames are pairwise distinct.
C1_FirstTouchReplace ==
    \A k \in DocKeys :
        (ReplacePassDone /\ Cardinality(RecordsFor(k)) > 1) =>
            /\ WithKey(action.fcurves, k) # {}
            /\ \A c \in WithKey(action.fcurves, k) :
                LET points == action.fcurves[c].keyframe_points
                IN  /\ FramesOf(points) = {seen[i].co[1] : i \in RecordsFor(k)}
                    /\ Len(points) = Cardinality(FramesOf(points))
                    /\ DistinctFrames(k) =>
                        /\ Len(points) = Cardinality(RecordsFor(k))
                        /\ PointSet(points) = {RecordPoint(seen[i]) : i \in RecordsFor(k)}

\* C1's case: a replace pass has put two records of one key, on different
\* frames, into a channel that held a point on another frame before.
C1_Witness ==
    /\ Finished("replace")
    /\ \E k \in DocKeys :
        /\ Cardinality(RecordsFor(k)) > 1
        /\ DistinctFrames(k)
        /\ \E p \in WithKey(pre.action.fcurves, k), c \in WithKey(action.fcurves, k) :
            /\ pre.action.fcurves[p].keyframe_points # <<>>
            /\ Len(action.fcurves[c].keyframe_points) = Cardinality(RecordsFor(k))

\* The channels of fcurves whose key is outside the set F, in order.
Outside(fcurves, F) ==
    LET out(c) == KeyOf(c) \notin F
    IN  SelectSeq(fcurves, out)

\* C2: in a pass of insert_keyframes with a filter set F, the empty set
\* included, no channel whose key is outside F is created, removed or
\* modified.
C2_FilterExclusive ==
    (op = "insert_keyframes" /\ filter.given) =>
        Outside(action.fcurves, filter.keys) = Outside(pre.action.fcurves, filter.keys)

\* C3: the container holds at most one channel per (data_path,
\* array_index) key, after each touch_fcurve of every pass of any sequence
\* of imports.
C3_KeyUnique ==
    \A i, j \in DOMAIN action.fcurves :
        KeyOf(action.fcurves[i]) = KeyOf(action.fcurves[j]) => i = j

\* C3's case: a replace pass, not the first pass of the run, has replaced
\* a channel that existed when it started.
C3_Witness ==
    /\ Finished("replace")
    /\ used > Len(seen)
    /\ \E k \in DocKeys :
        /\ RecordsFor(k) # {}
        /\ WithKey(pre.action.fcurves, k) # {}
        /\ WithKey(action.fcurves, k) # {}

\* The prior channel of key k and the records of key k share no frame.
DisjointFromPrior(k) ==
    \A p \in WithKey(pre.action.fcurves, k) :
        FramesOf(pre.action.fcurves[p].keyframe_points)
            \cap {seen[i].co[1] : i \in RecordsFor(k)} = {}

\* What C4 promises for key k: the channel's point set is the union of
\* the prior points and the points the records describe.
UnionOfPriorAndDocument(k) ==
    \A p \in WithKey(pre.action.fcurves, k) :
        /\ WithKey(action.fcurves, k) # {}
        /\ \A c \in WithKey(action.fcurves, k) :
            PointSet(action.fcurves[c].keyframe_points) =
                PointSet(pre.action.fcurves[p].keyframe_points)
                    \cup {RecordPoint(seen[i]) : i \in RecordsFor(k)}

\* C4, as claimed: after a merge into a channel whose points sit on frames
\* disjoint from those of the document's records for its key, the
\* channel's point set is the union of the prior points and the
\* document's points.
C4_MergeUnion ==
    \A k \in DocKeys :
        (Finished("merge") /\ DisjointFromPrior(k)) => UnionOfPriorAndDocument(k)

\* C4, amended: the same, for documents whose records of that key sit on
\* pairwise distinct frames.
C4_MergeUnionDistinct ==
    \A k \in DocKeys :
        (Finished("merge") /\ DisjointFromPrior(k) /\ DistinctFrames(k)) =>
            UnionOfPriorAndDocument(k)

\* C4's case: a merge has added a record to a channel that held a point
\* on another frame.
C4_Witness ==
    /\ Finished("merge")
    /\ \E k \in DocKeys :
        /\ RecordsFor(k) # {}
        /\ DisjointFromPrior(k)
        /\ DistinctFrames(k)
        /\ \E p \in WithKey(pre.action.fcurves, k), c \in WithKey(action.fcurves, k) :
            /\ pre.action.fcurves[p].keyframe_points # <<>>
            /\ Len(action.fcurves[c].keyframe_points) >
                    Len(pre.action.fcurves[p].keyframe_points)

\* C5: after an export and an action import of the exported file, every
\* keyframe channel of the exported action has a channel of its key with
\* the same sequence of control points.
C5_RoundTrip ==
    (Finished("action_import") /\ from_file) =>
        \A i \in DOMAIN exported.fcurves :
            exported.fcurves[i].keyframe_points # <<>> =>
                \E j \in WithKey(action.fcurves, KeyOf(exported.fcurves[i])) :
                    action.fcurves[j].keyframe_points = exported.fcurves[i].keyframe_points

\* The records of doc with key k, in order.
RecordsOfKey(doc, k) ==
    LET mine(r) == <<r.data_path, r.array_index>> = k
    IN  SelectSeq(doc, mine)

\* C6: the exported document holds, for every keyframe channel of the
\* action, grouped or not, one record per control point, with the
\* channel's key and in the channel's order.
C6_ExportComplete ==
    Finished("export") =>
        \A i \in DOMAIN action.fcurves :
            LET c == action.fcurves[i]
                rs == RecordsOfKey(file.keyframes, KeyOf(c))
            IN  c.keyframe_points # <<>> =>
                    [j \in DOMAIN rs |-> RecordPoint(rs[j])] = c.keyframe_points

\* C7: when export has ended, normally or by an exception, every channel
\* is in the storage form it had when export started.
C7_FormRestored ==
    (pc = "idle" /\ op = "export") =>
        /\ Len(action.fcurves) = Len(pre.action.fcurves)
        /\ \A i \in DOMAIN action.fcurves :
            /\ (action.fcurves[i].keyframe_points = <<>>)
                    <=> (pre.action.fcurves[i].keyframe_points = <<>>)
            /\ (action.fcurves[i].sampled_points = <<>>)
                    <=> (pre.action.fcurves[i].sampled_points = <<>>)

\* C8, as claimed: an export of an object with no animation data, no
\* action or an action with no channels reports an error, does not
\* finish and never opens the output file.
C8_NothingToExportFails ==
    (pc = "idle" /\ op = "export" /\ (pre.anim # "action" \/ pre.action.fcurves = <<>>)) =>
        reported /\ result # "FINISHED" /\ ~opened

\* C8, amended: an export of an object with no animation data or no
\* action reports an error, returns None and never opens the output
\* file; an action with no channels is exported, and when that export
\* finishes the file holds a document with no keyframes.
C8_NoAnimationFails ==
    (pc = "idle" /\ op = "export") =>
        /\ pre.anim # "action" => (reported /\ result = "None" /\ ~opened)
        /\ (pre.anim = "action" /\ pre.action.fcurves = <<>> /\ result = "FINISHED") =>
                (opened /\ file.valid /\ file.keyframes = <<>>)

\* C8's case: export has ended on an object with animation data and no
\* action.
C8_Witness ==
    pc = "idle" /\ op = "export" /\ pre.anim = "empty" /\ reported

\* C9: an importer that fails on a malformed document leaves the
\* animation data and the container as they were.
C9_NoPartialMutation ==
    (pc = "idle" /\ op \in ImportOps /\ result \in {"JSONDecodeError", "KeyError"}) =>
        anim = pre.anim /\ action = pre.action

\* The channel at position i was created or re-created by the importer
\* that runs or ran last.
Created(i) ==
    \/ op = "action_import" /\ action.name = DocName
    \/ /\ op \in {"replace", "merge"}
       /\ \/ WithKey(pre.action.fcurves, KeyOf(action.fcurves[i])) = {}
          \/ KeyOf(action.fcurves[i]) \in replaced

\* C10: every channel an importer creates or re-creates is in no group,
\* and an export of the action the action importer built from a document
\* writes no keyframe record.
C10_ImportDropsGroups ==
    /\ \A i \in DOMAIN action.fcurves : Created(i) => action.fcurves[i].group = NoGroup
    /\ (Finished("export") /\ action.name = DocName) => file.keyframes = <<>>

\* C10's case: the action importer has built a channel with control
\* points from a document, and the export after it has written a file.
C10_Witness ==
    /\ Finished("export")
    /\ action.name = DocName
    /\ seen # <<>>
    /\ \E i \in DOMAIN action.fcurves : action.fcurves[i].keyframe_points # <<>>
    /\ file.valid
    /\ file.keyframes # seen

====
